---- MODULE Spec2Model ----
(***************************************************************************)
(* verba: content revisions kept as branches, pull requests and labels of  *)
(* a GitHub repository (verba/apps/revision/models.py).                    *)
(*                                                                         *)
(* Python strings that the code slices or tests with startswith are        *)
(* sequences of one-character strings; labels, which the code only         *)
(* compares, are plain strings.                                            *)
(***************************************************************************)
EXTENDS Integers, Sequences, FiniteSets, TLC

\* ------------------------------------------------------------ constants

CONTENT_PATH == <<"p","a","g","e","s","/">>
REVISIONS_LOG_FOLDER ==
    <<"c","o","n","t","e","n","t","-","r","e","v","i","s","i","o","n","-","l","o","g","s","/">>
BRANCH_NAMESPACE == <<"c","o","n","t","e","n","t","-">>
BASE_BRANCH == <<"d","e","v","e","l","o","p">>

LABEL_IN_PROGRESS == "do not merge"
LABEL_IN_REVIEW == "for review"

\* VERBA_CONFIG['LABELS']: the status vocabulary
AllowedLabels == {LABEL_IN_PROGRESS, LABEL_IN_REVIEW}

\* title[:10] and get_random_string(length=10) in RevisionManager.create
TitleCut == 10
RandomLen == 10

\* ------------------------------------------------------------ bounds

MaxInitPulls == 2
MaxBranches == 3
MaxTail == 2

\* ------------------------------------------------------------ strings

ToSet(s) == {s[i] : i \in 1..Len(s)}

\* s[n:]
DropFirst(s, n) == SubSeq(s, n + 1, Len(s))

\* s[:n]
TakeFirst(s, n) == SubSeq(s, 1, IF n < Len(s) THEN n ELSE Len(s))

\* str.startswith
StartsWith(s, p) ==
    /\ Len(s) >= Len(p)
    /\ \A i \in 1..Len(p) : s[i] = p[i]

UpperChars ==
    <<"A","B","C","D","E","F","G","H","I","J","K","L","M","N","O","P","Q","R","S","T","U","V","W","X","Y","Z">>
LowerChars ==
    <<"a","b","c","d","e","f","g","h","i","j","k","l","m","n","o","p","q","r","s","t","u","v","w","x","y","z">>
DigitChars == <<"0","1","2","3","4","5","6","7","8","9">>

\* \w and \s of the regular expressions slugify uses
IsWord(c) == c \in ToSet(UpperChars) \cup ToSet(LowerChars) \cup ToSet(DigitChars) \cup {"_"}
IsSpace(c) == c \in {" ", "\t", "\n"}

LowerChar(c) ==
    IF c \in ToSet(UpperChars)
    THEN LowerChars[CHOOSE i \in 1..Len(UpperChars) : UpperChars[i] = c]
    ELSE c

\* str.strip(): whitespace at both ends removed
RECURSIVE LStrip(_)
LStrip(s) ==
    IF s # <<>> /\ IsSpace(Head(s)) THEN LStrip(Tail(s)) ELSE s

RECURSIVE RStrip(_)
RStrip(s) ==
    IF s # <<>> /\ IsSpace(s[Len(s)]) THEN RStrip(SubSeq(s, 1, Len(s) - 1)) ELSE s

\* re.sub('[-\s]+', '-', s): every run of hyphens and whitespace becomes one hyphen
RECURSIVE CollapseHyphens(_, _)
CollapseHyphens(s, inRun) ==
    IF s = <<>> THEN <<>>
    ELSE IF Head(s) = "-" \/ IsSpace(Head(s))
         THEN (IF inRun THEN <<>> ELSE <<"-">>) \o CollapseHyphens(Tail(s), TRUE)
         ELSE <<Head(s)>> \o CollapseHyphens(Tail(s), FALSE)

\* django.utils.text.slugify on ASCII text:
\*   re.sub('[^\w\s-]', '', value).strip().lower(), then re.sub('[-\s]+', '-', ...)
slugify(value) ==
    LET kept == SelectSeq(value, LAMBDA c : IsWord(c) \/ IsSpace(c) \/ c = "-")
        stripped == RStrip(LStrip(kept))
        lowered == [i \in 1..Len(stripped) |-> LowerChar(stripped[i])]
    IN  CollapseHyphens(lowered, FALSE)

\* str.lower()
Lower(s) == [i \in 1..Len(s) |-> LowerChar(s[i])]

\* s.split(c)[-1]: what follows the last c, the whole of s when it holds no c
AfterLast(s, c) ==
    LET at == {i \in 1..Len(s) : s[i] = c}
    IN  IF at = {} THEN s
        ELSE SubSeq(s, (CHOOSE i \in at : \A j \in at : j <= i) + 1, Len(s))

\* s.split(c)[0]: what precedes the first c, the whole of s when it holds no c
BeforeFirst(s, c) ==
    LET at == {i \in 1..Len(s) : s[i] = c}
    IN  IF at = {} THEN s
        ELSE SubSeq(s, 1, (CHOOSE i \in at : \A j \in at : i <= j) - 1)

\* '/{}'.format(path) unless the path is already absolute
abs_path(path) ==
    IF StartsWith(path, <<"/">>) THEN path ELSE <<"/">> \o path

\* ------------------------------------------------------------ revision mapper

\* Python's None and a returned string, kept apart: <<>> is None, <<s>> is the string s
NoneVal == <<>>
Some(s) == <<s>>

get_verba_branch_name(revision_id) == BRANCH_NAMESPACE \o revision_id

is_verba_branch(name) == StartsWith(name, BRANCH_NAMESPACE)

\* a slice that starts one character early
get_revision_id_short_slice(verba_branch_name) ==
    IF ~is_verba_branch(verba_branch_name)
    THEN NoneVal
    ELSE Some(DropFirst(verba_branch_name, Len(BRANCH_NAMESPACE) - 1))

get_revision_id(verba_branch_name) ==
    IF ~is_verba_branch(verba_branch_name)
    THEN NoneVal
    ELSE Some(DropFirst(verba_branch_name, Len(BRANCH_NAMESPACE)))

\* Python truthiness of `revision_id` in `if not revision_id`: None and '' are falsy
Truthy(opt) == opt # NoneVal /\ opt[1] # <<>>

\* ------------------------------------------------------------ state

VARIABLES
    pulls,      \* the repository's pull requests, in the order get_pulls() lists them
    branches,   \* the repository's branch names
    files,      \* the repository's files: [branch, path, content]
    op,         \* per request: the operation it runs
    pc,         \* per request: the API call it issues next
    arg,        \* per request: the operation's arguments and locals
    loc,        \* per request: the label list read by get_labels()
    log,        \* per request: the API calls issued so far by the operation
    ret,        \* per request: what the operation returned or raised
    probe       \* the last mapper call: [fn, arg, out]

vars == <<pulls, branches, files, op, pc, arg, loc, log, ret, probe>>

\* the request slots; a worker serves one request at a time
Reqs == {"w1", "w2"}
Serial == {"w1"}

\* Revision(repo, revision_id, pull): the pull is kept by its position in the repository
Revision(revision_id, pull) == [id |-> revision_id, pull |-> pull]

NoArg ==
    [title |-> <<>>, creator |-> <<>>, id |-> <<>>, branch |-> <<>>, pull |-> 0,
     description |-> <<>>, path |-> <<>>, content |-> <<>>, file |-> <<>>]
NoRet == [kind |-> "none", revs |-> <<>>, n |-> 0, labels |-> <<>>, assignees |-> <<>>]
NoProbe == [fn |-> "none", arg |-> <<>>, out |-> <<>>]

\* ------------------------------------------------------------ inputs

RefX == <<"c","o","n","t","e","n","t","-","x">>
RefY == <<"c","o","n","t","e","n","t","-","y">>
RefBare == <<"x">>

\* head refs of the pull requests other people opened
InitRefs == {RefX, RefY, BRANCH_NAMESPACE, RefBare}

\* labels already on those pull requests
InitLabels ==
    { <<>>,
      <<LABEL_IN_PROGRESS, LABEL_IN_REVIEW, "another-label">> }

OldTitle == <<"o","l","d">>

InitPull(ref, labels) ==
    [ref |-> ref, title |-> OldTitle, body |-> <<>>, labels |-> labels, assignees |-> <<>>]

InitPullSeqs ==
    UNION { [1..n -> {InitPull(r, l) : r \in InitRefs, l \in InitLabels}] : n \in 0..MaxInitPulls }

\* what the users type and what the environment supplies to create()
Titles == { <<"A","b"," ","c","!">>,
            <<"t","e","s","t","-","t","i","t","l","e"," ","x","2">> }
Creators == { <<"a","l">>, <<"t","e","s","t","-","o","w","n","e","r">> }
RandomChars == {"a", "B"}
Stamps == { <<"2","0","1","6",".","0","1",".","0","1","_","0","0",".","0","0">> }

\* branch names handed to the mapper: every proper or full prefix of the namespace,
\* and a look-alike, followed by a short tail
NameChars == {"c", "-", "x"}
Tails == UNION { [1..n -> NameChars] : n \in 0..MaxTail }
NameHeads ==
    {SubSeq(BRANCH_NAMESPACE, 1, k) : k \in 0..Len(BRANCH_NAMESPACE)}
        \cup {<<"C","o","n","t","e","n","t","-">>}
Names == {h \o tl : h \in NameHeads, tl \in Tails}

TestOwner == <<"t","e","s","t","-","o","w","n","e","r">>
TestReviewer == <<"t","e","s","t","-","r","e","v","i","e","w","e","r">>
AnotherUser == <<"a","n","o","t","h","e","r","-","u","s","e","r">>

\* config.ASSIGNEES.ALLOWED
AllowedAssignees == {TestOwner, TestReviewer}

\* sequences of distinct elements of a set: what the API lists for labels and assignees
DistinctSeqs(S) ==
    UNION { {s \in [1..n -> S] : \A i, j \in 1..n : i # j => s[i] # s[j]} : n \in 0..Cardinality(S) }

ProbeLabels == DistinctSeqs(AllowedLabels \cup {"another-label"})
ProbeAssignees == DistinctSeqs(AllowedAssignees \cup {AnotherUser})

\* blob paths handed to RevisionFile: every prefix of the content root, the rooted and
\* the upper-case spelling of it, followed by a short tail
PathChars == {"a", "/", "."}
PathTails == UNION { [1..n -> PathChars] : n \in 0..MaxTail }
PathHeads ==
    {SubSeq(CONTENT_PATH, 1, k) : k \in 0..Len(CONTENT_PATH)}
        \cup {<<"/">> \o CONTENT_PATH, <<"P","a","g","e","s","/">>}
BlobPaths == {h \o tl : h \in PathHeads, tl \in PathTails}

\* the names GitHub can list under the content root, in the order it lists them
EntryNames ==
    << <<"B",".","M","D">>, <<"a",".","m","d">>, <<"c",".","t","x","t">>, <<"m","d">>,
       <<"s","u","b">> >>

\* what lies under the content root of the base branch, as paths below it
InitFileSets ==
    { { <<"a",".","m","d">>, <<"c",".","t","x","t">>, <<"B",".","M","D">> },
      { <<"a",".","m","d">>, <<"m","d">>, <<"s","u","b","/","d",".","m","d">> } }

OldContent == <<"o","l","d">>
NewContents == { <<"n","e","w">> }

\* file paths of the URLs requested
LookupPaths ==
    { <<"a",".","m","d">>, <<"b",".","m","d">>, <<"c",".","t","x","t">>, <<"z",".","m","d">> }

\* what the user types into the send-for-approval form
NewTitle == <<"n","e","w"," ","t","i","t","l","e">>
ApprovalTitles == {NewTitle, <<>>}
ApprovalDescriptions == { <<"n","e","w"," ","d","e","s","c","r","i","p","t","i","o","n">> }

\* revision ids of the URLs requested
LookupIds == {<<"x">>, <<"y">>, <<>>, <<"z">>}

\* ------------------------------------------------------------ RevisionManager reads

RECURSIVE get_all_loop_keeps_unmanaged(_, _, _)
\* the loop without its `continue`: a pull on any other branch becomes a revision too
get_all_loop_keeps_unmanaged(ps, i, revisions) ==
    IF i > Len(ps) THEN revisions
    ELSE LET revision_id == get_revision_id(ps[i].ref)
         IN  get_all_loop_keeps_unmanaged(ps, i + 1,
                 Append(revisions,
                        Revision(IF revision_id = NoneVal THEN ps[i].ref ELSE revision_id[1], i)))

RECURSIVE get_all_loop(_, _, _)
get_all_loop(ps, i, revisions) ==
    IF i > Len(ps) THEN revisions
    ELSE LET revision_id == get_revision_id(ps[i].ref)
         IN  IF ~Truthy(revision_id)
             THEN get_all_loop(ps, i + 1, revisions)
             ELSE get_all_loop(ps, i + 1, Append(revisions, Revision(revision_id[1], i)))

get_all(ps) == get_all_loop(ps, 1, <<>>)

\* a lookup that also accepts a pull whose whole head ref is the id
get_by_id_raw_ref(ps, revision_id) ==
    LET hits == {i \in 1..Len(ps) :
                    \/ ps[i].ref = revision_id
                    \/ ps[i].ref = get_verba_branch_name(revision_id)}
    IN  IF hits = {} THEN <<>>
        ELSE <<Revision(revision_id, CHOOSE i \in hits : \A j \in hits : i <= j)>>

\* the first revision with that id, or <<>> when the loop ends without one
get_by_id(ps, revision_id) ==
    LET revisions == get_all(ps)
        hits == {k \in 1..Len(revisions) : revisions[k].id = revision_id}
    IN  IF hits = {} THEN <<>>
        ELSE <<revisions[CHOOSE k \in hits : \A j \in hits : k <= j]>>

\* ------------------------------------------------------------ actions

Init ==
    /\ pulls \in InitPullSeqs
    /\ branches = {BASE_BRANCH} \cup {pulls[i].ref : i \in 1..Len(pulls)}
    /\ files = {}
    /\ op = [r \in Reqs |-> "idle"]
    /\ pc = [r \in Reqs |-> "idle"]
    /\ arg = [r \in Reqs |-> NoArg]
    /\ loc = [r \in Reqs |-> <<>>]
    /\ log = [r \in Reqs |-> <<>>]
    /\ ret = [r \in Reqs |-> NoRet]
    /\ probe = NoProbe

\* RevisionManager.get_all()
GetAll(r) ==
    /\ pc[r] = "idle"
    /\ op' = [op EXCEPT ![r] = "get_all"]
    /\ pc' = [pc EXCEPT ![r] = "done"]
    /\ log' = [log EXCEPT ![r] = <<"get_pulls">>]
    /\ ret' = [ret EXCEPT ![r] =
                 [NoRet EXCEPT !.kind = "revisions", !.revs = get_all(pulls), !.n = Len(pulls)]]
    /\ UNCHANGED <<pulls, branches, files, arg, loc, probe>>

\* RevisionManager.get_by_id(revision_id)
GetById(r, revision_id) ==
    /\ pc[r] = "idle"
    /\ op' = [op EXCEPT ![r] = "get_by_id"]
    /\ arg' = [arg EXCEPT ![r] = [NoArg EXCEPT !.id = revision_id]]
    /\ log' = [log EXCEPT ![r] = <<"get_pulls">>]
    /\ LET found == get_by_id(pulls, revision_id)
       IN  IF found = <<>>
           THEN /\ pc' = [pc EXCEPT ![r] = "raised"]
                /\ ret' = [ret EXCEPT ![r] =
                             [NoRet EXCEPT !.kind = "RevisionNotFoundException", !.n = Len(pulls)]]
           ELSE /\ pc' = [pc EXCEPT ![r] = "done"]
                /\ ret' = [ret EXCEPT ![r] =
                             [NoRet EXCEPT !.kind = "revision", !.revs = found, !.n = Len(pulls)]]
    /\ UNCHANGED <<pulls, branches, files, loc, probe>>

\* ------------------------------------------------------------ labels

RECURSIVE RemoveFirst(_, _)
\* list.remove(x): the first occurrence goes
RemoveFirst(s, x) ==
    IF s = <<>> THEN <<>>
    ELSE IF Head(s) = x THEN Tail(s)
    ELSE <<Head(s)>> \o RemoveFirst(Tail(s), x)

RECURSIVE Dedup(_)
\* the labels of an issue are a set: a name given twice is kept once
Dedup(s) ==
    IF s = <<>> THEN <<>>
    ELSE LET init == Dedup(SubSeq(s, 1, Len(s) - 1))
             last == s[Len(s)]
         IN  IF last \in ToSet(init) THEN init ELSE Append(init, last)

\* the 'in review' label left in place
mark_as_in_progress_keeps_review(labels) == Append(labels, LABEL_IN_PROGRESS)

\* the list Revision.mark_as_in_progress passes to set_labels
mark_as_in_progress(labels) ==
    Append(IF LABEL_IN_REVIEW \in ToSet(labels)
           THEN RemoveFirst(labels, LABEL_IN_REVIEW)
           ELSE labels,
           LABEL_IN_PROGRESS)

\* the label list replaced instead of edited
mark_as_in_review_resets(labels) == <<LABEL_IN_REVIEW>>

\* the list Revision.mark_as_in_review passes to set_labels
mark_as_in_review(labels) ==
    Append(IF LABEL_IN_PROGRESS \in ToSet(labels)
           THEN RemoveFirst(labels, LABEL_IN_PROGRESS)
           ELSE labels,
           LABEL_IN_REVIEW)

\* ------------------------------------------------------------ RevisionManager.create

\* get_random_string(length=10), drawn here from strings of one repeated character
RandomString(c) == [i \in 1..RandomLen |-> c]

\* '{}-{}'.format(slugify(title[:10]), get_random_string(length=10))
generate_revision_id(title, rnd) ==
    slugify(TakeFirst(title, TitleCut)) \o <<"-">> \o rnd

revision_log_file_path(stamp, branch_name) ==
    abs_path(REVISIONS_LOG_FOLDER \o stamp \o <<"_">> \o branch_name)

GithubException == [NoRet EXCEPT !.kind = "GithubException"]

\* create(): the branch name, then get_branch(BASE_BRANCH) and create_git_ref
CreateBranch(r, title, creator, rnd, ok) ==
    /\ pc[r] = "idle"
    /\ Cardinality(branches) < MaxBranches
    /\ LET revision_id == generate_revision_id(title, rnd)
           branch_name == get_verba_branch_name(revision_id)
       IN  /\ op' = [op EXCEPT ![r] = "create"]
           /\ arg' = [arg EXCEPT ![r] =
                        [NoArg EXCEPT !.title = title, !.creator = creator,
                                      !.id = revision_id, !.branch = branch_name]]
           /\ log' = [log EXCEPT ![r] = <<"get_branch", "create_git_ref">>]
           /\ IF ok /\ branch_name \notin branches
              THEN /\ branches' = branches \cup {branch_name}
                   /\ pc' = [pc EXCEPT ![r] = "create_file"]
                   /\ ret' = ret
              ELSE /\ branches' = branches
                   /\ pc' = [pc EXCEPT ![r] = "raised"]
                   /\ ret' = [ret EXCEPT ![r] = GithubException]
    /\ UNCHANGED <<pulls, files, loc, probe>>

\* a create() that deletes its branch when the log file cannot be written
CreateFile_rollback(r, stamp, ok) ==
    /\ pc[r] = "create_file"
    /\ log' = [log EXCEPT ![r] = Append(@, "create_file")]
    /\ IF ok
       THEN /\ files' = files \cup
                   {[branch |-> arg[r].branch,
                     path |-> revision_log_file_path(stamp, arg[r].branch),
                     content |-> <<>>]}
            /\ branches' = branches
            /\ pc' = [pc EXCEPT ![r] = "create_pull"]
            /\ ret' = ret
       ELSE /\ files' = files
            /\ branches' = branches \ {arg[r].branch}
            /\ pc' = [pc EXCEPT ![r] = "raised"]
            /\ ret' = [ret EXCEPT ![r] = GithubException]
    /\ UNCHANGED <<pulls, op, arg, loc, probe>>

\* create(): the empty revision log file on the new branch
CreateFile(r, stamp, ok) ==
    /\ pc[r] = "create_file"
    /\ log' = [log EXCEPT ![r] = Append(@, "create_file")]
    /\ IF ok
       THEN /\ files' = files \cup
                   {[branch |-> arg[r].branch,
                     path |-> revision_log_file_path(stamp, arg[r].branch),
                     content |-> <<>>]}
            /\ pc' = [pc EXCEPT ![r] = "create_pull"]
            /\ ret' = ret
       ELSE /\ files' = files
            /\ pc' = [pc EXCEPT ![r] = "raised"]
            /\ ret' = [ret EXCEPT ![r] = GithubException]
    /\ UNCHANGED <<pulls, branches, op, arg, loc, probe>>

\* create(): the pull request from the new branch to the base branch
CreatePull(r, ok) ==
    /\ pc[r] = "create_pull"
    /\ log' = [log EXCEPT ![r] = Append(@, "create_pull")]
    /\ IF ok
       THEN /\ pulls' = Append(pulls,
                   [ref |-> arg[r].branch,
                    title |-> arg[r].title,
                    body |-> <<"C","o","n","t","e","n","t"," ","r","e","v","i","s","i","o","n"," ">>
                             \o arg[r].title,
                    labels |-> <<>>,
                    assignees |-> <<>>])
            /\ arg' = [arg EXCEPT ![r].pull = Len(pulls) + 1]
            /\ pc' = [pc EXCEPT ![r] = "get_labels"]
            /\ ret' = ret
       ELSE /\ pulls' = pulls
            /\ arg' = arg
            /\ pc' = [pc EXCEPT ![r] = "raised"]
            /\ ret' = [ret EXCEPT ![r] = GithubException]
    /\ UNCHANGED <<branches, files, op, loc, probe>>

\* ------------------------------------------------------------ status transitions

\* a request that looks its revision up and calls mark_as_in_progress or mark_as_in_review
MarkBegin(r, which, revision_id) ==
    /\ pc[r] = "idle"
    /\ which \in {"mark_as_in_progress", "mark_as_in_review"}
    /\ op' = [op EXCEPT ![r] = which]
    /\ log' = [log EXCEPT ![r] = <<"get_pulls">>]
    /\ LET found == get_by_id(pulls, revision_id)
       IN  IF found = <<>>
           THEN /\ pc' = [pc EXCEPT ![r] = "raised"]
                /\ arg' = [arg EXCEPT ![r] = [NoArg EXCEPT !.id = revision_id]]
                /\ ret' = [ret EXCEPT ![r] =
                             [NoRet EXCEPT !.kind = "RevisionNotFoundException", !.n = Len(pulls)]]
           ELSE /\ pc' = [pc EXCEPT ![r] = "get_labels"]
                /\ arg' = [arg EXCEPT ![r] =
                             [NoArg EXCEPT !.id = revision_id,
                                           !.branch = get_verba_branch_name(revision_id),
                                           !.pull = found[1].pull]]
                /\ ret' = ret
    /\ UNCHANGED <<pulls, branches, files, loc, probe>>

\* labels = [l.name for l in self._issue.get_labels()]
GetLabels(r) ==
    /\ pc[r] = "get_labels"
    /\ loc' = [loc EXCEPT ![r] = pulls[arg[r].pull].labels]
    /\ log' = [log EXCEPT ![r] = Append(@, "get_labels")]
    /\ pc' = [pc EXCEPT ![r] = "set_labels"]
    /\ UNCHANGED <<pulls, branches, files, op, arg, ret, probe>>

\* the list the operation of request r passes to set_labels
NewLabels(r) ==
    IF op[r] \in {"create", "mark_as_in_progress"}
    THEN mark_as_in_progress(loc[r])
    ELSE mark_as_in_review(loc[r])

\* a write that adds the labels to those on the pull request instead of replacing them
SetLabels_merges(r, ok) ==
    /\ pc[r] = "set_labels"
    /\ log' = [log EXCEPT ![r] = Append(@, "set_labels")]
    /\ IF ok
       THEN /\ pulls' = [pulls EXCEPT ![arg[r].pull].labels = Dedup(@ \o NewLabels(r))]
            /\ IF op[r] = "send_for_approval"
               THEN /\ pc' = [pc EXCEPT ![r] = "edit"]
                    /\ ret' = ret
               ELSE /\ pc' = [pc EXCEPT ![r] = "done"]
                    /\ ret' = [ret EXCEPT ![r] =
                                 [NoRet EXCEPT !.kind = IF op[r] = "create" THEN "revision" ELSE "None",
                                               !.revs = <<Revision(arg[r].id, arg[r].pull)>>,
                                               !.n = Len(pulls),
                                               !.labels = Dedup(NewLabels(r)),
                                               !.assignees = pulls[arg[r].pull].assignees]]
       ELSE /\ pulls' = pulls
            /\ pc' = [pc EXCEPT ![r] = "raised"]
            /\ ret' = [ret EXCEPT ![r] = GithubException]
    /\ UNCHANGED <<branches, files, op, arg, loc, probe>>

\* self._issue.set_labels(*labels), after which the operation returns or, in
\* send_for_approval, goes on to edit the pull request
SetLabels(r, ok) ==
    /\ pc[r] = "set_labels"
    /\ log' = [log EXCEPT ![r] = Append(@, "set_labels")]
    /\ IF ok
       THEN /\ pulls' = [pulls EXCEPT ![arg[r].pull].labels = Dedup(NewLabels(r))]
            /\ IF op[r] = "send_for_approval"
               THEN /\ pc' = [pc EXCEPT ![r] = "edit"]
                    /\ ret' = ret
               ELSE /\ pc' = [pc EXCEPT ![r] = "done"]
                    /\ ret' = [ret EXCEPT ![r] =
                                 [NoRet EXCEPT !.kind = IF op[r] = "create" THEN "revision" ELSE "None",
                                               !.revs = <<Revision(arg[r].id, arg[r].pull)>>,
                                               !.n = Len(pulls),
                                               !.labels = Dedup(NewLabels(r)),
                                               !.assignees = pulls[arg[r].pull].assignees]]
       ELSE /\ pulls' = pulls
            /\ pc' = [pc EXCEPT ![r] = "raised"]
            /\ ret' = [ret EXCEPT ![r] = GithubException]
    /\ UNCHANGED <<branches, files, op, arg, loc, probe>>

\* ------------------------------------------------------------ Revision properties

\* every label reported as a status
statuses_all_labels(labels) == labels

\* Revision.statuses: the pull request's labels that are in the status vocabulary
statuses(labels) == SelectSeq(labels, LAMBDA l : l \in AllowedLabels)

\* Revision.assignees: the pull request's assignees that are allowed ones
assignees(users) == SelectSeq(users, LAMBDA u : u \in AllowedAssignees)

\* ------------------------------------------------------------ RevisionFile

\* a blob as the API lists it: its path from the repository root and its decoded content
GitFile(path, content) == [path |-> path, content |-> content]

\* the assert of RevisionFile.__init__ holds
RevisionFileAccepts(gitfile) == StartsWith(gitfile.path, CONTENT_PATH)

\* RevisionFile(repo, revision_id, gitfile), for a gitfile the assert lets through
RevisionFile(revision_id, gitfile) == [revision_id |-> revision_id, gitfile |-> gitfile]

\* RevisionFile.branch_name
RevisionFile_branch_name(rev_file) == get_verba_branch_name(rev_file.revision_id)

\* a slice that keeps the slash of the content root
RevisionFile_path_keeps_slash(rev_file) ==
    DropFirst(rev_file.gitfile.path, Len(CONTENT_PATH) - 1)

\* RevisionFile.path: self._gitfile.path[len(CONTENT_PATH):]
RevisionFile_path(rev_file) == DropFirst(rev_file.gitfile.path, Len(CONTENT_PATH))

\* gitfile.name: the last component of the path
GitFile_name(gitfile) == AfterLast(gitfile.path, "/")

\* repo.get_dir_contents(path, ref): one entry for each name directly under the
\* directory, a file with its content or a sub-directory; paths have no leading slash
get_dir_contents(fs, path, ref) ==
    LET under == {f \in fs : f.branch = ref /\ StartsWith(f.path, path)}
        rest(f) == DropFirst(f.path, Len(path))
        present == SelectSeq(EntryNames,
                             LAMBDA n : \E f \in under : BeforeFirst(rest(f), "/") = n)
        entry(n) ==
            LET f == CHOOSE f \in under : BeforeFirst(rest(f), "/") = n
            IN  GitFile(DropFirst(path, 1) \o n, IF rest(f) = n THEN f.content ELSE <<>>)
    IN  [k \in 1..Len(present) |-> entry(present[k])]

\* Revision.is_content_file
is_content_file(file_name) == Lower(AfterLast(file_name, ".")) = <<"m","d">>

\* Revision.get_files(); the listed paths all start with the content root, so the
\* assert of RevisionFile never fails here
get_files(fs, revision_id) ==
    LET gitfiles == get_dir_contents(fs, abs_path(CONTENT_PATH),
                                     get_verba_branch_name(revision_id))
        kept == SelectSeq(gitfiles, LAMBDA g : is_content_file(GitFile_name(g)))
    IN  [k \in 1..Len(kept) |-> RevisionFile(revision_id, kept[k])]

\* Revision.get_file_by_path(path): the first file whose path matches whatever the
\* case, or <<>> when the loop ends without one
get_file_by_path(fs, revision_id, path) ==
    LET rev_files == get_files(fs, revision_id)
        hits == {k \in 1..Len(rev_files) : Lower(RevisionFile_path(rev_files[k])) = Lower(path)}
    IN  IF hits = {} THEN <<>>
        ELSE <<rev_files[CHOOSE k \in hits : \A j \in hits : k <= j]>>

\* ------------------------------------------------------------ calls of the pure functions

repoAndRequests == <<pulls, branches, files, op, pc, arg, loc, log, ret>>

ProbeIsVerbaBranch(name) ==
    /\ probe' = [fn |-> "is_verba_branch", arg |-> name, out |-> <<is_verba_branch(name)>>]
    /\ UNCHANGED repoAndRequests

ProbeGetRevisionId(name) ==
    /\ probe' = [fn |-> "get_revision_id", arg |-> name, out |-> get_revision_id(name)]
    /\ UNCHANGED repoAndRequests

\* get_revision_id(get_verba_branch_name(revision_id))
ProbeRoundTrip(revision_id) ==
    /\ probe' = [fn |-> "round_trip", arg |-> revision_id,
                 out |-> get_revision_id(get_verba_branch_name(revision_id))]
    /\ UNCHANGED repoAndRequests

ProbeStatuses(labels) ==
    /\ probe' = [fn |-> "statuses", arg |-> labels, out |-> statuses(labels)]
    /\ UNCHANGED repoAndRequests

ProbeAssigneesOf(users) ==
    /\ probe' = [fn |-> "assignees", arg |-> users, out |-> assignees(users)]
    /\ UNCHANGED repoAndRequests

\* RevisionFile(repo, revision_id, gitfile).path, or the AssertionError of the constructor
ProbeRevisionFile(revision_id, path) ==
    /\ probe' = [fn |-> "RevisionFile", arg |-> path,
                 out |-> IF RevisionFileAccepts(GitFile(path, <<>>))
                         THEN [raised |-> FALSE,
                               path |-> RevisionFile_path(RevisionFile(revision_id, GitFile(path, <<>>)))]
                         ELSE [raised |-> TRUE, path |-> <<>>]]
    /\ UNCHANGED repoAndRequests

MapperInit ==
    /\ pulls = <<>>
    /\ branches = {BASE_BRANCH}
    /\ files = {}
    /\ op = [r \in Reqs |-> "idle"]
    /\ pc = [r \in Reqs |-> "idle"]
    /\ arg = [r \in Reqs |-> NoArg]
    /\ loc = [r \in Reqs |-> <<>>]
    /\ log = [r \in Reqs |-> <<>>]
    /\ ret = [r \in Reqs |-> NoRet]
    /\ probe = NoProbe

MapperNext ==
    \/ \E name \in Names : ProbeIsVerbaBranch(name)
    \/ \E name \in Names : ProbeGetRevisionId(name)
    \/ \E tl \in Tails : ProbeRoundTrip(tl)
    \/ \E labels \in ProbeLabels : ProbeStatuses(labels)
    \/ \E users \in ProbeAssignees : ProbeAssigneesOf(users)
    \/ \E i \in LookupIds, path \in BlobPaths : ProbeRevisionFile(i, path)

MapperSpec == MapperInit /\ [][MapperNext]_vars

\* the request is over; the worker takes the next one
Reset(r) ==
    /\ pc[r] \in {"done", "raised"}
    /\ op' = [op EXCEPT ![r] = "idle"]
    /\ pc' = [pc EXCEPT ![r] = "idle"]
    /\ arg' = [arg EXCEPT ![r] = NoArg]
    /\ loc' = [loc EXCEPT ![r] = <<>>]
    /\ log' = [log EXCEPT ![r] = <<>>]
    /\ ret' = [ret EXCEPT ![r] = NoRet]
    /\ UNCHANGED <<pulls, branches, files, probe>>

Next ==
    \/ \E r \in Serial : GetAll(r)
    \/ \E r \in Serial, i \in LookupIds : GetById(r, i)
    \/ \E r \in Serial, t \in Titles, c \in Creators, x \in RandomChars, ok \in BOOLEAN :
          CreateBranch(r, t, c, RandomString(x), ok)
    \/ \E r \in Serial, s \in Stamps, ok \in BOOLEAN : CreateFile(r, s, ok)
    \/ \E r \in Serial, ok \in BOOLEAN : CreatePull(r, ok)
    \/ \E r \in Serial, w \in {"mark_as_in_progress", "mark_as_in_review"}, i \in LookupIds :
          MarkBegin(r, w, i)
    \/ \E r \in Serial : GetLabels(r)
    \/ \E r \in Serial, ok \in BOOLEAN : SetLabels(r, ok)
    \/ \E r \in Serial : Reset(r)

Spec == Init /\ [][Next]_vars

\* ------------------------------------------------------------ revision pages and files

\* pull requests of a repository whose base branch carries content: each managed
\* branch is the head of one open pull request
DetailPullSeqs ==
    LET all == UNION { [1..n -> {InitPull(r, l) : r \in {RefX, RefY},
                                                  l \in {<<LABEL_IN_PROGRESS>>,
                                                         <<LABEL_IN_REVIEW, "another-label">>}}]
                       : n \in 1..MaxInitPulls }
    IN  {ps \in all : \A i, j \in 1..Len(ps) : i # j => ps[i].ref # ps[j].ref}

\* every branch was cut from the base branch and carries its content
DetailInit ==
    /\ pulls \in DetailPullSeqs
    /\ branches = {BASE_BRANCH} \cup {pulls[i].ref : i \in 1..Len(pulls)}
    /\ \E S \in InitFileSets :
          files = {[branch |-> b, path |-> abs_path(CONTENT_PATH \o n), content |-> OldContent]
                      : b \in branches, n \in S}
    /\ op = [r \in Reqs |-> "idle"]
    /\ pc = [r \in Reqs |-> "idle"]
    /\ arg = [r \in Reqs |-> NoArg]
    /\ loc = [r \in Reqs |-> <<>>]
    /\ log = [r \in Reqs |-> <<>>]
    /\ ret = [r \in Reqs |-> NoRet]
    /\ probe = NoProbe

\* a request that looks its revision up and calls get_files()
GetFiles(r, revision_id, ok) ==
    /\ pc[r] = "idle"
    /\ op' = [op EXCEPT ![r] = "get_files"]
    /\ LET found == get_by_id(pulls, revision_id)
       IN  IF found = <<>>
           THEN /\ pc' = [pc EXCEPT ![r] = "raised"]
                /\ arg' = [arg EXCEPT ![r] = [NoArg EXCEPT !.id = revision_id]]
                /\ log' = [log EXCEPT ![r] = <<"get_pulls">>]
                /\ ret' = [ret EXCEPT ![r] =
                             [NoRet EXCEPT !.kind = "RevisionNotFoundException", !.n = Len(pulls)]]
           ELSE /\ arg' = [arg EXCEPT ![r] =
                             [NoArg EXCEPT !.id = revision_id,
                                           !.branch = get_verba_branch_name(revision_id),
                                           !.pull = found[1].pull]]
                /\ log' = [log EXCEPT ![r] = <<"get_pulls", "get_dir_contents">>]
                /\ IF ok
                   THEN /\ pc' = [pc EXCEPT ![r] = "done"]
                        /\ ret' = [ret EXCEPT ![r] =
                                     [NoRet EXCEPT !.kind = "files",
                                                   !.revs = get_files(files, revision_id),
                                                   !.n = Len(pulls)]]
                   ELSE /\ pc' = [pc EXCEPT ![r] = "raised"]
                        /\ ret' = [ret EXCEPT ![r] = GithubException]
    /\ UNCHANGED <<pulls, branches, files, loc, probe>>

\* `except cls` catches an exception of class exc; the two exceptions of
\* verba.apps.revision.exceptions are separate classes
Catches(cls, exc) == cls = exc

\* RevisionDetailMixin.get_revision: what the view gets or raises
get_revision(ps, revision_id) ==
    LET found == get_by_id(ps, revision_id)
    IN  IF found = <<>>
        THEN IF Catches("RevisionNotFoundException", "RevisionNotFoundException")
             THEN [kind |-> "Http404", revs |-> <<>>]
             ELSE [kind |-> "RevisionNotFoundException", revs |-> <<>>]
        ELSE [kind |-> "revision", revs |-> found]

\* RevisionFileDetail.get_revision_file: what the view gets or raises; ok is whether
\* the API answers the directory listing
get_revision_file(ps, fs, revision_id, file_path, ok) ==
    LET revision == get_revision(ps, revision_id)
    IN  IF revision.kind # "revision" THEN revision
        ELSE IF ~ok THEN [kind |-> "GithubException", revs |-> <<>>]
        ELSE LET rev_file == get_file_by_path(fs, revision_id, file_path)
             IN  IF rev_file # <<>>
                 THEN [kind |-> "revision_file", revs |-> rev_file]
                 ELSE IF Catches("RevisionNotFoundException", "RevisionFileNotFoundException")
                      THEN [kind |-> "Http404", revs |-> <<>>]
                      ELSE [kind |-> "RevisionFileNotFoundException", revs |-> <<>>]

\* GET of the revision page: RevisionDetail.get_context_data
RevisionDetailView(r, revision_id) ==
    /\ pc[r] = "idle"
    /\ op' = [op EXCEPT ![r] = "RevisionDetail"]
    /\ arg' = [arg EXCEPT ![r] = [NoArg EXCEPT !.id = revision_id]]
    /\ log' = [log EXCEPT ![r] = <<"get_pulls">>]
    /\ LET got == get_revision(pulls, revision_id)
       IN  /\ pc' = [pc EXCEPT ![r] = IF got.kind = "revision" THEN "done" ELSE "raised"]
           /\ ret' = [ret EXCEPT ![r] =
                        [NoRet EXCEPT !.kind = got.kind, !.revs = got.revs, !.n = Len(pulls)]]
    /\ UNCHANGED <<pulls, branches, files, loc, probe>>

\* GET of a file's page: RevisionFileDetail.get_context_data
RevisionFileDetailView(r, revision_id, file_path, ok) ==
    /\ pc[r] = "idle"
    /\ op' = [op EXCEPT ![r] = "RevisionFileDetail"]
    /\ arg' = [arg EXCEPT ![r] = [NoArg EXCEPT !.id = revision_id, !.path = file_path]]
    /\ LET got == get_revision_file(pulls, files, revision_id, file_path, ok)
       IN  /\ log' = [log EXCEPT ![r] =
                        IF get_by_id(pulls, revision_id) = <<>>
                        THEN <<"get_pulls">>
                        ELSE <<"get_pulls", "get_dir_contents">>]
           /\ pc' = [pc EXCEPT ![r] = IF got.kind = "revision_file" THEN "done" ELSE "raised"]
           /\ ret' = [ret EXCEPT ![r] =
                        [NoRet EXCEPT !.kind = got.kind, !.revs = got.revs, !.n = Len(pulls)]]
    /\ UNCHANGED <<pulls, branches, files, loc, probe>>

\* POST of a file's page: the file is looked up as for GET, then its content changed
ChangeContentBegin(r, revision_id, file_path, new_content, ok) ==
    /\ pc[r] = "idle"
    /\ op' = [op EXCEPT ![r] = "change_content"]
    /\ LET got == get_revision_file(pulls, files, revision_id, file_path, ok)
       IN  /\ log' = [log EXCEPT ![r] =
                        IF get_by_id(pulls, revision_id) = <<>>
                        THEN <<"get_pulls">>
                        ELSE <<"get_pulls", "get_dir_contents">>]
           /\ arg' = [arg EXCEPT ![r] =
                        [NoArg EXCEPT !.id = revision_id, !.path = file_path,
                                      !.content = new_content,
                                      !.file = IF got.kind = "revision_file" THEN got.revs ELSE <<>>]]
           /\ IF got.kind = "revision_file"
              THEN /\ pc' = [pc EXCEPT ![r] = "update_file"]
                   /\ ret' = ret
              ELSE /\ pc' = [pc EXCEPT ![r] = "raised"]
                   /\ ret' = [ret EXCEPT ![r] = [NoRet EXCEPT !.kind = got.kind, !.n = Len(pulls)]]
    /\ UNCHANGED <<pulls, branches, files, loc, probe>>

\* a change committed to the same path of the base branch
UpdateFile_on_base_branch(r, ok) ==
    /\ pc[r] = "update_file"
    /\ log' = [log EXCEPT ![r] = Append(@, "update_file")]
    /\ IF ok
       THEN /\ files' = {IF f.branch = BASE_BRANCH /\ f.path = abs_path(arg[r].file[1].gitfile.path)
                         THEN [f EXCEPT !.content = arg[r].content]
                         ELSE f : f \in files}
            /\ pc' = [pc EXCEPT ![r] = "done"]
            /\ ret' = [ret EXCEPT ![r] = [NoRet EXCEPT !.kind = "None", !.n = Len(pulls)]]
       ELSE /\ files' = files
            /\ pc' = [pc EXCEPT ![r] = "raised"]
            /\ ret' = [ret EXCEPT ![r] = GithubException]
    /\ UNCHANGED <<pulls, branches, op, arg, loc, probe>>

\* RevisionFile.change_content: update_file(repo, path, message, content, branch)
\* commits the content to that path of that branch
UpdateFile(r, ok) ==
    /\ pc[r] = "update_file"
    /\ log' = [log EXCEPT ![r] = Append(@, "update_file")]
    /\ IF ok
       THEN /\ files' = {IF /\ f.branch = RevisionFile_branch_name(arg[r].file[1])
                            /\ f.path = abs_path(arg[r].file[1].gitfile.path)
                         THEN [f EXCEPT !.content = arg[r].content]
                         ELSE f : f \in files}
            /\ pc' = [pc EXCEPT ![r] = "done"]
            /\ ret' = [ret EXCEPT ![r] = [NoRet EXCEPT !.kind = "None", !.n = Len(pulls)]]
       ELSE /\ files' = files
            /\ pc' = [pc EXCEPT ![r] = "raised"]
            /\ ret' = [ret EXCEPT ![r] = GithubException]
    /\ UNCHANGED <<pulls, branches, op, arg, loc, probe>>

\* POST of the send-for-approval page: the revision is looked up, then
\* send_for_approval(title, description) starts with mark_as_in_review()
SendForApprovalBegin(r, revision_id, title, description) ==
    /\ pc[r] = "idle"
    /\ op' = [op EXCEPT ![r] = "send_for_approval"]
    /\ log' = [log EXCEPT ![r] = <<"get_pulls">>]
    /\ LET got == get_revision(pulls, revision_id)
       IN  IF got.kind # "revision"
           THEN /\ pc' = [pc EXCEPT ![r] = "raised"]
                /\ arg' = [arg EXCEPT ![r] = [NoArg EXCEPT !.id = revision_id]]
                /\ ret' = [ret EXCEPT ![r] = [NoRet EXCEPT !.kind = got.kind, !.n = Len(pulls)]]
           ELSE /\ pc' = [pc EXCEPT ![r] = "get_labels"]
                /\ arg' = [arg EXCEPT ![r] =
                             [NoArg EXCEPT !.id = revision_id,
                                           !.branch = get_verba_branch_name(revision_id),
                                           !.pull = got.revs[1].pull,
                                           !.title = title,
                                           !.description = description]]
                /\ ret' = ret
    /\ UNCHANGED <<pulls, branches, files, loc, probe>>

\* an edit that puts the old labels back when it is rejected
EditPull_restores_labels(r, ok) ==
    /\ pc[r] = "edit"
    /\ log' = [log EXCEPT ![r] = Append(@, "edit")]
    /\ IF ok /\ arg[r].title # <<>>
       THEN /\ pulls' = [pulls EXCEPT ![arg[r].pull].title = arg[r].title,
                                      ![arg[r].pull].body = arg[r].description]
            /\ pc' = [pc EXCEPT ![r] = "done"]
            /\ ret' = [ret EXCEPT ![r] =
                         [NoRet EXCEPT !.kind = "None",
                                       !.revs = <<Revision(arg[r].id, arg[r].pull)>>,
                                       !.n = Len(pulls),
                                       !.labels = pulls[arg[r].pull].labels]]
       ELSE /\ pulls' = [pulls EXCEPT ![arg[r].pull].labels = loc[r]]
            /\ pc' = [pc EXCEPT ![r] = "raised"]
            /\ ret' = [ret EXCEPT ![r] = GithubException]
    /\ UNCHANGED <<branches, files, op, arg, loc, probe>>

\* send_for_approval: self._pull.edit(title=title, body=description); the API
\* rejects a pull request without a title, and may fail for any other reason
EditPull(r, ok) ==
    /\ pc[r] = "edit"
    /\ log' = [log EXCEPT ![r] = Append(@, "edit")]
    /\ IF ok /\ arg[r].title # <<>>
       THEN /\ pulls' = [pulls EXCEPT ![arg[r].pull].title = arg[r].title,
                                      ![arg[r].pull].body = arg[r].description]
            /\ pc' = [pc EXCEPT ![r] = "done"]
            /\ ret' = [ret EXCEPT ![r] =
                         [NoRet EXCEPT !.kind = "None",
                                       !.revs = <<Revision(arg[r].id, arg[r].pull)>>,
                                       !.n = Len(pulls),
                                       !.labels = pulls[arg[r].pull].labels]]
       ELSE /\ pulls' = pulls
            /\ pc' = [pc EXCEPT ![r] = "raised"]
            /\ ret' = [ret EXCEPT ![r] = GithubException]
    /\ UNCHANGED <<branches, files, op, arg, loc, probe>>

DetailNext ==
    \/ \E r \in Serial, i \in LookupIds, ok \in BOOLEAN : GetFiles(r, i, ok)
    \/ \E r \in Serial, i \in LookupIds : RevisionDetailView(r, i)
    \/ \E r \in Serial, i \in LookupIds, path \in LookupPaths, ok \in BOOLEAN :
          RevisionFileDetailView(r, i, path, ok)
    \/ \E r \in Serial, i \in LookupIds, path \in LookupPaths, c \in NewContents, ok \in BOOLEAN :
          ChangeContentBegin(r, i, path, c, ok)
    \/ \E r \in Serial, ok \in BOOLEAN : UpdateFile(r, ok)
    \/ \E r \in Serial, i \in LookupIds, t \in ApprovalTitles, d \in ApprovalDescriptions :
          SendForApprovalBegin(r, i, t, d)
    \/ \E r \in Serial : GetLabels(r)
    \/ \E r \in Serial, ok \in BOOLEAN : SetLabels(r, ok)
    \/ \E r \in Serial, ok \in BOOLEAN : EditPull(r, ok)
    \/ \E r \in Serial : Reset(r)

DetailSpec == DetailInit /\ [][DetailNext]_vars

\* ------------------------------------------------------------ two requests at once

\* label lists that hold exactly one status label
OneStatusLabels ==
    { <<LABEL_IN_PROGRESS>>, <<LABEL_IN_REVIEW>>,
      <<"another-label", LABEL_IN_PROGRESS>>, <<LABEL_IN_REVIEW, "another-label">> }

\* one revision, well-formed, that both requests work on
ConcInit ==
    /\ pulls \in {<<InitPull(RefX, l)>> : l \in OneStatusLabels}
    /\ branches = {BASE_BRANCH, RefX}
    /\ files = {}
    /\ op = [r \in Reqs |-> "idle"]
    /\ pc = [r \in Reqs |-> "idle"]
    /\ arg = [r \in Reqs |-> NoArg]
    /\ loc = [r \in Reqs |-> <<>>]
    /\ log = [r \in Reqs |-> <<>>]
    /\ ret = [r \in Reqs |-> NoRet]
    /\ probe = NoProbe

\* the API calls of the two requests interleave in any order
ConcNext ==
    \/ \E r \in Reqs, w \in {"mark_as_in_progress", "mark_as_in_review"}, i \in LookupIds :
          MarkBegin(r, w, i)
    \/ \E r \in Reqs, i \in LookupIds, t \in ApprovalTitles, d \in ApprovalDescriptions :
          SendForApprovalBegin(r, i, t, d)
    \/ \E r \in Reqs : GetLabels(r)
    \/ \E r \in Reqs, ok \in BOOLEAN : SetLabels(r, ok)
    \/ \E r \in Reqs, ok \in BOOLEAN : EditPull(r, ok)
    \/ \E r \in Reqs : Reset(r)

ConcSpec == ConcInit /\ [][ConcNext]_vars

\* ------------------------------------------------------------ properties

\* name is the namespace prefix followed by something (possibly nothing)
HasNamespacePrefix(name) ==
    name = BRANCH_NAMESPACE \o SubSeq(name, Len(BRANCH_NAMESPACE) + 1, Len(name))

Count(s, x) == Cardinality({i \in 1..Len(s) : s[i] = x})

IsPrefix(s, full) == Len(s) <= Len(full) /\ SubSeq(full, 1, Len(s)) = s

IsSuffix(s, full) ==
    Len(s) <= Len(full) /\ SubSeq(full, Len(full) - Len(s) + 1, Len(full)) = s

GetAllReturned(r) == op[r] = "get_all" /\ pc[r] = "done"

\* C1: get_all() excludes every pull request whose head branch is not a managed
\* branch: no returned Revision is backed by a pull whose head ref lacks the
\* namespace prefix 'content-', so no more revisions are returned than there are
\* managed pulls.
C1_GetAllExcludesUnmanaged ==
    \A r \in Reqs : GetAllReturned(r) =>
        /\ \A k \in 1..Len(ret[r].revs) :
              /\ ret[r].revs[k].pull \in 1..ret[r].n
              /\ HasNamespacePrefix(pulls[ret[r].revs[k].pull].ref)
        /\ \A k, j \in 1..Len(ret[r].revs) :
              ret[r].revs[k].pull = ret[r].revs[j].pull => k = j
        /\ Len(ret[r].revs)
              <= Cardinality({i \in 1..ret[r].n : HasNamespacePrefix(pulls[i].ref)})

\* get_all() has returned from a repository that lists a managed and an unrelated pull
C1_Witness ==
    \E r \in Reqs :
        /\ GetAllReturned(r)
        /\ ret[r].n = 2
        /\ \E i \in 1..ret[r].n : ~HasNamespacePrefix(pulls[i].ref)
        /\ Len(ret[r].revs) = 1

\* C2: get_all() returns one Revision per managed branch: for every pull whose
\* head ref is a managed branch, the ref that is exactly the namespace prefix
\* included, the result holds exactly one Revision backed by that pull, and its id
\* is the ref with the prefix stripped.
C2_GetAllOnePerManaged ==
    \A r \in Reqs : GetAllReturned(r) =>
        \A i \in 1..ret[r].n : HasNamespacePrefix(pulls[i].ref) =>
            /\ Cardinality({k \in 1..Len(ret[r].revs) : ret[r].revs[k].pull = i}) = 1
            /\ \A k \in 1..Len(ret[r].revs) : ret[r].revs[k].pull = i =>
                  BRANCH_NAMESPACE \o ret[r].revs[k].id = pulls[i].ref

GetByIdEnded(r) == op[r] = "get_by_id" /\ pc[r] \in {"done", "raised"}

\* C3: get_by_id(id) raises RevisionNotFoundException both when no pull request
\* matches the id and when the pull that matches it is not on a managed branch;
\* it returns a Revision with that id only when a pull on the managed branch of
\* that id exists.
C3_GetByIdNotFound ==
    \A r \in Reqs : GetByIdEnded(r) =>
        LET revision_id == arg[r].id
            managed == {i \in 1..ret[r].n : pulls[i].ref = BRANCH_NAMESPACE \o revision_id}
        IN  /\ ret[r].kind \in {"revision", "RevisionNotFoundException"}
            /\ (pc[r] = "raised") = (ret[r].kind = "RevisionNotFoundException")
            /\ managed = {} => ret[r].kind = "RevisionNotFoundException"
            /\ ret[r].kind = "revision" =>
                  /\ Len(ret[r].revs) = 1
                  /\ ret[r].revs[1].id = revision_id
                  /\ ret[r].revs[1].pull \in managed
                  /\ HasNamespacePrefix(pulls[ret[r].revs[1].pull].ref)

\* the id requested is the whole head ref of a pull on an unmanaged branch, and the
\* lookup raised
C3_Witness ==
    \E r \in Reqs :
        /\ GetByIdEnded(r)
        /\ \E i \in 1..ret[r].n :
              pulls[i].ref = arg[r].id /\ ~HasNamespacePrefix(pulls[i].ref)
        /\ ret[r].kind = "RevisionNotFoundException"

CreateReturned(r) == op[r] = "create" /\ pc[r] = "done"

\* C4: a successful create(title, creator) issues exactly one branch-create, one
\* file-create and one pull-request-create (head the new branch), and returns a
\* revision whose statuses are exactly ['draft'] and whose assignees are exactly
\* [creator].
C4_CreateDraftAssignedToCreator ==
    \A r \in Reqs : CreateReturned(r) =>
        /\ Count(log[r], "create_git_ref") = 1
        /\ Count(log[r], "create_file") = 1
        /\ Count(log[r], "create_pull") = 1
        /\ pulls[ret[r].revs[1].pull].ref = arg[r].branch
        /\ statuses(ret[r].labels) = <<LABEL_IN_PROGRESS>>
        /\ assignees(ret[r].assignees) = <<arg[r].creator>>

\* the API calls of create(), in the order of its code
CreateOrder ==
    <<"get_branch", "create_git_ref", "create_file", "create_pull", "get_labels", "set_labels">>

\* request r issued call c and the call did not fail
Succeeded(r, c) ==
    /\ c \in ToSet(log[r])
    /\ ~(pc[r] = "raised" /\ log[r][Len(log[r])] = c)

\* C5: create() issues branch-create, log-file-create, pull-request-create and the
\* initial status label strictly in that order and never rolls back: once a step
\* fails no later step is issued, and the effect of every earlier step is still in
\* the repository (a failed pull-request-create leaves the branch and the log file
\* behind, with no pull request and no label).
C5_CreateOrderNoRollback ==
    \A r \in Reqs : op[r] = "create" =>
        /\ IsPrefix(log[r], CreateOrder)
        /\ pc[r] \in {"done", "raised"} \/ pc[r] = CreateOrder[Len(log[r]) + 1]
        /\ pc[r] = "done" => log[r] = CreateOrder
        /\ Succeeded(r, "create_git_ref") => arg[r].branch \in branches
        /\ Succeeded(r, "create_file") =>
              \E f \in files :
                  /\ f.branch = arg[r].branch
                  /\ IsPrefix(<<"/">> \o REVISIONS_LOG_FOLDER, f.path)
                  /\ IsSuffix(arg[r].branch, f.path)
                  /\ f.content = <<>>
        /\ Succeeded(r, "create_pull") =>
              /\ arg[r].pull \in 1..Len(pulls)
              /\ pulls[arg[r].pull].ref = arg[r].branch
        /\ Succeeded(r, "set_labels") =>
              LABEL_IN_PROGRESS \in ToSet(pulls[arg[r].pull].labels)
        /\ (Succeeded(r, "create_git_ref") /\ ~Succeeded(r, "create_file")) =>
              ~\E f \in files : f.branch = arg[r].branch
        /\ (Succeeded(r, "create_git_ref") /\ ~Succeeded(r, "create_pull")) =>
              ~\E i \in 1..Len(pulls) : pulls[i].ref = arg[r].branch
        /\ (Succeeded(r, "create_pull") /\ ~Succeeded(r, "set_labels")) =>
              pulls[arg[r].pull].labels = <<>>

\* pull-request-create failed after the branch and the log file were created
C5_Witness ==
    \E r \in Reqs :
        /\ op[r] = "create"
        /\ pc[r] = "raised"
        /\ log[r] = <<"get_branch", "create_git_ref", "create_file", "create_pull">>
        /\ arg[r].branch \in branches
        /\ \E f \in files : f.branch = arg[r].branch

\* C6: mark_as_in_progress (move to draft) leaves exactly one status label in the
\* label set written to the pull request, the draft one, whether zero, one or all
\* of the status labels, the draft label included, were there before.
C6_MarkInProgressOneStatus ==
    \A r \in Reqs : (op[r] \in {"mark_as_in_progress", "create"} /\ pc[r] = "done") =>
        /\ ToSet(ret[r].labels) \cap AllowedLabels = {LABEL_IN_PROGRESS}
        /\ Count(ret[r].labels, LABEL_IN_PROGRESS) = 1
        /\ pulls[arg[r].pull].labels = ret[r].labels

\* mark_as_in_progress ended on a pull that held the whole status vocabulary
C6_Witness ==
    \E r \in Reqs :
        /\ op[r] = "mark_as_in_progress"
        /\ pc[r] = "done"
        /\ AllowedLabels \subseteq ToSet(loc[r])

\* C7: a status transition (mark_as_in_progress, mark_as_in_review) changes only
\* status labels: every label outside the status vocabulary that was on the pull
\* before the call is on it afterwards, and no such label is added.
C7_TransitionKeepsOtherLabels ==
    \A r \in Reqs :
        (op[r] \in {"mark_as_in_progress", "mark_as_in_review"} /\ pc[r] = "done") =>
            /\ ToSet(ret[r].labels) \ AllowedLabels = ToSet(loc[r]) \ AllowedLabels
            /\ pulls[arg[r].pull].labels = ret[r].labels

\* mark_as_in_review ended on a pull that carried a label outside the vocabulary
C7_Witness ==
    \E r \in Reqs :
        /\ op[r] = "mark_as_in_review"
        /\ pc[r] = "done"
        /\ "another-label" \in ToSet(loc[r])
        /\ "another-label" \in ToSet(pulls[arg[r].pull].labels)

\* C8: for any title t and creator c the branch name generated for a new revision
\* is a managed branch, and the id recovered from it is nonempty and ends in a
\* suffix that reconstructs c.
C8_BranchNameRecoversCreator ==
    \A r \in Reqs : op[r] = "create" =>
        /\ HasNamespacePrefix(arg[r].branch)
        /\ get_revision_id(arg[r].branch) = Some(arg[r].id)
        /\ arg[r].id # <<>>
        /\ IsSuffix(arg[r].creator, arg[r].id)

\* C9: the mapper is total and prefix-exact: is_verba_branch(name) is true exactly
\* when name starts with the namespace prefix; get_revision_id(name) is None
\* exactly when is_verba_branch(name) is false and otherwise is name with the
\* prefix stripped, so that get_revision_id(prefix + id) = id for every id.
C9_MapperPrefixExact ==
    /\ probe.fn = "is_verba_branch" =>
          probe.out = <<HasNamespacePrefix(probe.arg)>>
    /\ probe.fn = "get_revision_id" =>
          /\ (probe.out = NoneVal) = ~HasNamespacePrefix(probe.arg)
          /\ (probe.out = NoneVal) = ~is_verba_branch(probe.arg)
          /\ probe.out # NoneVal =>
                /\ Len(probe.out) = 1
                /\ BRANCH_NAMESPACE \o probe.out[1] = probe.arg
    /\ probe.fn = "round_trip" => probe.out = Some(probe.arg)

\* the id of a managed branch name was extracted
C9_Witness ==
    /\ probe.fn = "get_revision_id"
    /\ HasNamespacePrefix(probe.arg)
    /\ probe.out # NoneVal
    /\ probe.out[1] # <<>>

\* C10: Revision.statuses is exactly the pull's labels that are in the status
\* vocabulary, and Revision.assignees the pull's assignees that are allowed ones:
\* nothing outside the vocabulary appears, everything inside it that the pull
\* carries does.
C10_StatusesAreAllowedLabels ==
    /\ probe.fn = "statuses" =>
          /\ ToSet(probe.out) = ToSet(probe.arg) \cap AllowedLabels
          /\ Len(probe.out) = Cardinality(ToSet(probe.out))
    /\ probe.fn = "assignees" =>
          /\ ToSet(probe.out) = ToSet(probe.arg) \cap AllowedAssignees
          /\ Len(probe.out) = Cardinality(ToSet(probe.out))

\* statuses read from a pull that carries the whole vocabulary and another label
C10_Witness ==
    /\ probe.fn = "statuses"
    /\ ToSet(probe.arg) = AllowedLabels \cup {"another-label"}
    /\ Len(probe.out) = 2

\* C11: a RevisionFile exists only for a blob whose path starts with the content
\* root; its path is the blob path without that prefix, so that the content root
\* followed by the path is the blob path again.
C11_RevisionFilePathRelative ==
    probe.fn = "RevisionFile" =>
        /\ probe.out.raised <=> ~IsPrefix(CONTENT_PATH, probe.arg)
        /\ ~probe.out.raised =>
              /\ CONTENT_PATH \o probe.out.path = probe.arg
              /\ Len(probe.out.path) = Len(probe.arg) - Len(CONTENT_PATH)

C11_Witness ==
    /\ probe.fn = "RevisionFile"
    /\ ~probe.out.raised
    /\ probe.out.path = <<"a", "/">>

\* the name ends with a dot and 'md', in any case
HasContentExtension(name) ==
    Len(name) >= 3 /\ Lower(SubSeq(name, Len(name) - 2, Len(name))) = <<".", "m", "d">>

GetFilesReturned(r) == op[r] = "get_files" /\ pc[r] = "done"

\* C12: get_files() returns RevisionFiles of this revision backed by entries listed
\* under the content root on the revision's own branch: exactly one for each entry
\* whose name has the content extension and none for any other entry.
C12_GetFilesOnePerContentEntry ==
    \A r \in Serial :
        GetFilesReturned(r) =>
            LET entries == get_dir_contents(files, <<"/">> \o CONTENT_PATH,
                                            BRANCH_NAMESPACE \o arg[r].id)
            IN  /\ \A k \in 1..Len(ret[r].revs) :
                      /\ ret[r].revs[k].revision_id = arg[r].id
                      /\ \E e \in 1..Len(entries) : ret[r].revs[k].gitfile = entries[e]
                /\ \A e \in 1..Len(entries) :
                      Cardinality({k \in 1..Len(ret[r].revs) : ret[r].revs[k].gitfile = entries[e]})
                          = IF HasContentExtension(GitFile_name(entries[e])) THEN 1 ELSE 0

\* the revision of request r exists: some pull request's head is the branch of its id
RevisionExists(r) ==
    /\ arg[r].id # <<>>
    /\ \E i \in 1..Len(pulls) : pulls[i].ref = BRANCH_NAMESPACE \o arg[r].id

\* a file of the revision of request r matches the requested path
FileMatches(r) ==
    \E f \in files :
        /\ f.branch = BRANCH_NAMESPACE \o arg[r].id
        /\ HasContentExtension(f.path)
        /\ Lower(f.path) = Lower(<<"/">> \o CONTENT_PATH \o arg[r].path)

\* the view of request r ended without the API failing
ViewEnded(r, view) ==
    /\ op[r] = view
    /\ pc[r] \in {"done", "raised"}
    /\ ret[r].kind # "GithubException"

\* C13: every 'not found' ends in Http404: a page of a revision id that does not
\* exist, and a file page whose path no file of the existing revision matches.
C13_NotFoundIsHttp404 ==
    \A r \in Serial :
        /\ (ViewEnded(r, "RevisionDetail") \/ ViewEnded(r, "RevisionFileDetail"))
              /\ ~RevisionExists(r) => ret[r].kind = "Http404"
        /\ ViewEnded(r, "RevisionFileDetail") /\ RevisionExists(r) /\ ~FileMatches(r)
              => ret[r].kind = "Http404"

WriteCalls == {"create_git_ref", "create_file", "create_pull", "set_labels", "update_file", "edit"}

\* how many of the API calls in a log are writes
Writes(calls) == Cardinality({i \in 1..Len(calls) : calls[i] \in WriteCalls})

\* C14: change_content issues one API write; it puts new_content at the file's own
\* path on the branch of the file's revision, a managed branch, and leaves every
\* other file, every branch and every pull request as it was.
C14_ChangeContentFrame ==
    [][\A r \in Serial :
          op[r] = "change_content" /\ pc[r] = "update_file" /\ pc'[r] = "done" =>
              LET own == [branch |-> BRANCH_NAMESPACE \o arg[r].id,
                          path |-> <<"/">> \o arg[r].file[1].gitfile.path]
                  at(fs) == {f \in fs : f.branch = own.branch /\ f.path = own.path}
              IN  /\ own.branch # BASE_BRANCH
                  /\ IsPrefix(BRANCH_NAMESPACE, own.branch)
                  /\ Lower(own.path) = Lower(<<"/">> \o CONTENT_PATH \o arg[r].path)
                  /\ at(files') = {[branch |-> own.branch, path |-> own.path,
                                    content |-> arg[r].content]}
                  /\ files' \ at(files') = files \ at(files)
                  /\ branches' = branches
                  /\ pulls' = pulls
                  /\ Writes(log'[r]) = 1]_vars

C14_Witness ==
    \E r \in Serial :
        /\ op[r] = "change_content"
        /\ pc[r] = "done"
        /\ \E f, g, h \in files :
              /\ f.branch = BRANCH_NAMESPACE \o arg[r].id
              /\ f.content = arg[r].content
              /\ g.branch = BASE_BRANCH /\ g.path = f.path /\ g.content = OldContent
              /\ h.branch = RefY /\ h.path = f.path /\ h.content = OldContent
              /\ f.branch = RefX

SendForApproval(r) == op[r] = "send_for_approval"

InReviewOnly(labels) ==
    LABEL_IN_REVIEW \in ToSet(labels) /\ LABEL_IN_PROGRESS \notin ToSet(labels)

\* C16: send_for_approval writes the in-review label before it edits the pull
\* request. When the label write fails nothing changes and no edit is issued; the
\* label write leaves title and body alone; when the edit is rejected the pull
\* request keeps the in-review label and its old title and body; when both succeed
\* it holds the in-review label with the new title and description.
C16_LabelBeforeEdit ==
    [][\A r \in Serial :
          SendForApproval(r) =>
              /\ pc[r] = "set_labels" /\ pc'[r] = "raised" =>
                    pulls' = pulls /\ "edit" \notin ToSet(log'[r])
              /\ pc[r] = "set_labels" /\ pc'[r] = "edit" =>
                    /\ InReviewOnly(pulls'[arg[r].pull].labels)
                    /\ pulls'[arg[r].pull].title = pulls[arg[r].pull].title
                    /\ pulls'[arg[r].pull].body = pulls[arg[r].pull].body
                    /\ "edit" \notin ToSet(log'[r])
              /\ pc[r] = "edit" /\ pc'[r] = "raised" =>
                    /\ pulls' = pulls
                    /\ InReviewOnly(pulls'[arg[r].pull].labels)
              /\ pc[r] = "edit" /\ pc'[r] = "done" =>
                    /\ InReviewOnly(pulls'[arg[r].pull].labels)
                    /\ pulls'[arg[r].pull].title = arg[r].title
                    /\ pulls'[arg[r].pull].body = arg[r].description
              /\ pc'[r] = "done" =>
                    log'[r] = <<"get_pulls", "get_labels", "set_labels", "edit">>]_vars

\* the edit was rejected: the revision is in review under its old title
C16_Witness ==
    \E r \in Serial :
        /\ SendForApproval(r)
        /\ pc[r] = "raised"
        /\ log[r] = <<"get_pulls", "get_labels", "set_labels", "edit">>
        /\ loc[r] = <<LABEL_IN_PROGRESS>>
        /\ pulls[arg[r].pull].labels = <<LABEL_IN_REVIEW>>
        /\ pulls[arg[r].pull].title = OldTitle
        /\ arg[r].title = NewTitle

\* C15: from a revision with exactly one status label, whatever transitions run
\* and however the label reads and writes of two requests interleave, the labels
\* stored on the pull request hold exactly one status label, never both.
C15_OneStatusLabelAlways ==
    \A i \in 1..Len(pulls) :
        /\ Cardinality({k \in 1..Len(pulls[i].labels) : pulls[i].labels[k] \in AllowedLabels}) = 1
        /\ ~(/\ LABEL_IN_PROGRESS \in ToSet(pulls[i].labels)
             /\ LABEL_IN_REVIEW \in ToSet(pulls[i].labels))

\* both requests read 'for review'; w1 then marked the revision in progress and w2,
\* writing from its stale read, put it back in review
C15_Witness ==
    /\ op["w1"] = "mark_as_in_progress" /\ pc["w1"] = "done"
    /\ op["w2"] \in {"mark_as_in_review", "send_for_approval"} /\ pc["w2"] \in {"done", "edit"}
    /\ loc["w1"] = <<LABEL_IN_REVIEW>>
    /\ loc["w2"] = <<LABEL_IN_REVIEW>>
    /\ pulls[1].labels = <<LABEL_IN_REVIEW>>

====
